---- MODULE Spec2Model ----
(***************************************************************************)
(* Model of commitment_set.py: a liveness mask, its run-length transform   *)
(* and the self-describing Huffman codec that compresses the run lengths.  *)
(*                                                                         *)
(* Python values are modelled as follows.                                  *)
(*   bool            0 / 1   (bool is a subclass of int: True == 1)        *)
(*   list            sequence                                              *)
(*   str             sequence of one-character strings                     *)
(*   HuffmanCodeLeaf     [count, symbol]                                   *)
(*   HuffmanCodeNonLeaf  [count, left, right]                              *)
(*   None (a count)  NoneCount                                             *)
(*   a raised exception  pc = "error" and err = the exception's name       *)
(***************************************************************************)
EXTENDS Integers, Sequences, FiniteSets, TLC

\* ------------------------------------------------------------------ bounds
MaxTotal == 8       \* total_commitments drawn for LivenessMask.random
MaxText == 4        \* length of the strings handed to from_bit_string
MaxRaw == 6         \* length of the arbitrary bit lists handed to huffman_decompress
MaxPayload == 3     \* length of the arbitrary payloads appended to a serialized tree
MaxSymbols == 4     \* length of the symbol sequences handed to huffman_compress
MaxSymbol == 3      \* largest symbol of those sequences
MaxOut == MaxTotal + MaxSymbols + 3  \* cap on the decoded list, so that a decode loop that never ends stays finite

Chars == {"0", "1", "2", "a"}   \* the alphabet of the strings handed to from_bit_string
NoneCount == 0 - 1              \* the count None of a parsed node
NoTree == [unset |-> TRUE]      \* a tree variable before its assignment

BitSeqs(n) == UNION {[1..k -> {0, 1}] : k \in 0..n}

VARIABLES pc, origin, text, lm, rle, lm_rle, symbols, code_tree, symbol_prefix_map,
          compressed, input, bits, parsed_tree, out, lm_parsed, err

vars == <<pc, origin, text, lm, rle, lm_rle, symbols, code_tree, symbol_prefix_map,
          compressed, input, bits, parsed_tree, out, lm_parsed, err>>

\* ------------------------------------------------- str / int conversions
IsDigit(c) == c \in {"0", "1", "2", "3", "4", "5", "6", "7", "8", "9"}

\* int(c) for a one-character string holding a decimal digit
int(c) == CASE c = "0" -> 0 [] c = "1" -> 1 [] c = "2" -> 2 [] c = "3" -> 3
            [] c = "4" -> 4 [] c = "5" -> 5 [] c = "6" -> 6 [] c = "7" -> 7
            [] c = "8" -> 8 [] c = "9" -> 9

\* str(n) for the integers a mask element can hold
str(n) == CASE n = 0 -> "0" [] n = 1 -> "1"

bool(n) == IF n = 0 THEN 0 ELSE 1

\* s.split(sep) for a one-character separator
RECURSIVE split(_, _)
split(s, sep) ==
    IF \E i \in 1..Len(s) : s[i] = sep
    THEN LET i == CHOOSE j \in 1..Len(s) : s[j] = sep /\ \A k \in 1..(j - 1) : s[k] # sep
         IN  <<SubSeq(s, 1, i - 1)>> \o split(SubSeq(s, i + 1, Len(s)), sep)
    ELSE <<s>>

\* sep.join(parts)
RECURSIVE join(_, _)
join(sep, parts) ==
    IF Len(parts) = 0 THEN <<>>
    ELSE IF Len(parts) = 1 THEN parts[1]
    ELSE parts[1] \o sep \o join(sep, Tail(parts))

\* c * n : the one-character string c repeated n times
repeat(c, n) == [i \in 1..n |-> c]

\* ----------------------------------------------------------- LivenessMask
\* LivenessMask.__repr__
repr(mask) == [i \in 1..Len(mask) |-> str(mask[i])]

\* LivenessMask.from_bit_string: the mask, or the ValueError that int() raises
from_bit_string(bit_string) ==
    IF \E i \in 1..Len(bit_string) : ~IsDigit(bit_string[i])
    THEN [ok |-> FALSE, err |-> "ValueError"]
    ELSE [ok |-> TRUE, mask |-> [i \in 1..Len(bit_string) |-> bool(int(bit_string[i]))]]

\* to_rle that drops the empty runs, as a split on whitespace would
to_rle_without_empty_runs(mask) ==
    LET runs == SelectSeq(split(repr(mask), "1"), LAMBDA run : run # <<>>)
    IN  [i \in 1..Len(runs) |-> Len(runs[i])]

\* to_rle that splits on the wrong character
to_rle_split_on_zero(mask) ==
    LET runs == split(repr(mask), "0")
    IN  [i \in 1..Len(runs) |-> Len(runs[i])]

\* LivenessMask.to_rle
to_rle(mask) ==
    LET runs == split(repr(mask), "1")
    IN  [i \in 1..Len(runs) |-> Len(runs[i])]

\* from_rle that puts a true after every run, the last one included
from_rle_trailing_true(r) ==
    from_bit_string(join(<<>>, [i \in 1..Len(r) |-> repeat("0", r[i]) \o <<"1">>]))

\* LivenessMask.from_rle
from_rle(r) ==
    from_bit_string(join(<<"1">>, [i \in 1..Len(r) |-> repeat("0", r[i])]))

\* ------------------------------------------------------ bit-list helpers
\* int_to_bit_list: least-significant bit first, the empty list for 0
RECURSIVE int_to_bit_list(_)
int_to_bit_list(n) ==
    IF n = 0 THEN <<>> ELSE <<bool(n % 2)>> \o int_to_bit_list(n \div 2)

\* bit_list_to_int
RECURSIVE bit_list_to_int(_)
bit_list_to_int(b) ==
    IF b = <<>> THEN 0 ELSE b[1] + 2 * bit_list_to_int(Tail(b))

\* ------------------------------------------------------ Huffman code tree
\* HuffmanCodeLeaf.__init__
HuffmanCodeLeaf(count, symbol) == [count |-> count, symbol |-> symbol]

\* HuffmanCodeNonLeaf.__init__
HuffmanCodeNonLeaf(left, right) ==
    [count |-> IF left.count # NoneCount /\ right.count # NoneCount
               THEN left.count + right.count
               ELSE NoneCount,
     left |-> left,
     right |-> right]

\* isinstance(node, HuffmanCodeNonLeaf)
IsNonLeaf(node) == "left" \in DOMAIN node

\* HuffmanCodeTree.__lt__
lt(self, other) == self.count < other.count

\* heapq._siftdown; a heap position p of the code is index p + 1 here
RECURSIVE siftdown_loop(_, _, _, _)
siftdown_loop(heap, startpos, pos, newitem) ==
    IF pos > startpos
    THEN LET parentpos == (pos - 1) \div 2
             parent == heap[parentpos + 1]
         IN  IF lt(newitem, parent)
             THEN siftdown_loop([heap EXCEPT ![pos + 1] = parent], startpos, parentpos, newitem)
             ELSE [heap EXCEPT ![pos + 1] = newitem]
    ELSE [heap EXCEPT ![pos + 1] = newitem]

siftdown(heap, startpos, pos) == siftdown_loop(heap, startpos, pos, heap[pos + 1])

\* heapq._siftup
RECURSIVE siftup_loop(_, _, _, _)
siftup_loop(heap, startpos, pos, newitem) ==
    LET endpos == Len(heap)
        leftpos == 2 * pos + 1
        rightpos == leftpos + 1
        childpos == IF rightpos < endpos /\ ~lt(heap[leftpos + 1], heap[rightpos + 1])
                    THEN rightpos ELSE leftpos
    IN  IF leftpos < endpos
        THEN siftup_loop([heap EXCEPT ![pos + 1] = heap[childpos + 1]], startpos, childpos, newitem)
        ELSE siftdown([heap EXCEPT ![pos + 1] = newitem], startpos, pos)

siftup(heap, pos) == siftup_loop(heap, pos, pos, heap[pos + 1])

\* heapq.heapify
RECURSIVE heapify_loop(_, _)
heapify_loop(x, i) == IF i < 0 THEN x ELSE heapify_loop(siftup(x, i), i - 1)

heapify(x) == heapify_loop(x, (Len(x) \div 2) - 1)

\* heapq.heappop: the popped item and the heap that is left
heappop(heap) ==
    LET lastelt == heap[Len(heap)]
        rest == SubSeq(heap, 1, Len(heap) - 1)
    IN  IF rest # <<>>
        THEN [item |-> rest[1], heap |-> siftup([rest EXCEPT ![1] = lastelt], 0)]
        ELSE [item |-> lastelt, heap |-> rest]

\* heapq.heappush
heappush(heap, item) == siftdown(Append(heap, item), 0, Len(heap))

\* collections.Counter(symbols).items(): (symbol, count) in first-occurrence order
RECURSIVE first_seen(_)
first_seen(s) ==
    IF s = <<>> THEN <<>>
    ELSE LET before == first_seen(SubSeq(s, 1, Len(s) - 1))
             x == s[Len(s)]
         IN  IF \E i \in 1..Len(before) : before[i] = x THEN before ELSE Append(before, x)

Counter(s) ==
    LET keys == first_seen(s)
    IN  [i \in 1..Len(keys) |->
            [symbol |-> keys[i], count |-> Cardinality({j \in 1..Len(s) : s[j] = keys[i]})]]

\* the merge loop of for_symbols
RECURSIVE merge_loop(_)
merge_loop(trees) ==
    IF Len(trees) > 1
    THEN LET p1 == heappop(trees)
             p2 == heappop(p1.heap)
         IN  merge_loop(heappush(p2.heap, HuffmanCodeNonLeaf(p1.item, p2.item)))
    ELSE trees

\* HuffmanCodeTree.for_symbols (symbols is non-empty at every call this model makes)
for_symbols(s) ==
    LET counts == Counter(s)
        leaves == [i \in 1..Len(counts) |-> HuffmanCodeLeaf(counts[i].count, counts[i].symbol)]
        trees == SubSeq(leaves, 1, Len(leaves))
    IN  merge_loop(heapify(trees))[1]

RECURSIVE symbol_prefix_map_helper(_, _, _)
\* symbol_prefix_map_helper that labels both edges of a node False
symbol_prefix_map_helper_same_label(node, prefix, result) ==
    IF IsNonLeaf(node)
    THEN symbol_prefix_map_helper(node.right, prefix \o <<0>>,
            symbol_prefix_map_helper(node.left, prefix \o <<0>>, result))
    ELSE [x \in DOMAIN result \cup {node.symbol} |-> IF x = node.symbol THEN prefix ELSE result[x]]

\* symbol_prefix_map_helper of both node classes; result is the dict, a function
symbol_prefix_map_helper(node, prefix, result) ==
    IF IsNonLeaf(node)
    THEN symbol_prefix_map_helper(node.right, prefix \o <<1>>,
            symbol_prefix_map_helper(node.left, prefix \o <<0>>, result))
    ELSE [x \in DOMAIN result \cup {node.symbol} |-> IF x = node.symbol THEN prefix ELSE result[x]]

\* HuffmanCodeTree.symbol_prefix_map
prefix_map_of(tree) == symbol_prefix_map_helper(tree, <<>>, <<>>)

\* HuffmanCodeLeaf.serialize
serialize_leaf(node) ==
    LET symbol_bits == int_to_bit_list(node.symbol)
    IN  <<1>> \o [i \in 1..Len(symbol_bits) |-> 0] \o <<1>> \o symbol_bits

\* serialize of both node classes
RECURSIVE serialize(_)
serialize(node) ==
    IF IsNonLeaf(node)
    THEN <<0>> \o serialize(node.left) \o serialize(node.right)
    ELSE serialize_leaf(node)

\* the concatenated codewords that huffman_compress appends
RECURSIVE encode(_, _)
encode(s, map) == IF s = <<>> THEN <<>> ELSE map[s[1]] \o encode(Tail(s), map)

\* huffman_compress
huffman_compress(s) ==
    LET tree == for_symbols(s)
    IN  serialize(tree) \o encode(s, prefix_map_of(tree))

\* a pop(0) from an empty list
IndexError == [ok |-> FALSE, err |-> "IndexError", bits |-> <<>>]

\* the loop of parse_leaf that reads the unary length
RECURSIVE symbol_len_loop(_, _)
symbol_len_loop(b, symbol_len) ==
    IF b = <<>> THEN IndexError
    ELSE IF Head(b) = 0 THEN symbol_len_loop(Tail(b), symbol_len + 1)
    ELSE [ok |-> TRUE, symbol_len |-> symbol_len, bits |-> Tail(b)]

\* parse_leaf that reads the symbol but leaves its bits in the list
parse_leaf_without_del(b) ==
    LET r == symbol_len_loop(b, 0)
    IN  IF ~r.ok THEN r
        ELSE LET n == IF r.symbol_len < Len(r.bits) THEN r.symbol_len ELSE Len(r.bits)
             IN  [ok |-> TRUE,
                  tree |-> HuffmanCodeLeaf(NoneCount, bit_list_to_int(SubSeq(r.bits, 1, n))),
                  bits |-> r.bits]

\* HuffmanCodeLeaf.parse_leaf: the slice and the del take what is there
parse_leaf(b) ==
    LET r == symbol_len_loop(b, 0)
    IN  IF ~r.ok THEN r
        ELSE LET n == IF r.symbol_len < Len(r.bits) THEN r.symbol_len ELSE Len(r.bits)
             IN  [ok |-> TRUE,
                  tree |-> HuffmanCodeLeaf(NoneCount, bit_list_to_int(SubSeq(r.bits, 1, n))),
                  bits |-> SubSeq(r.bits, n + 1, Len(r.bits))]

RECURSIVE parse(_)
\* HuffmanCodeNonLeaf.parse_non_leaf
parse_non_leaf(b) ==
    LET l == parse(b)
    IN  IF ~l.ok THEN l
        ELSE LET r == parse(l.bits)
             IN  IF ~r.ok THEN r
                 ELSE [ok |-> TRUE, tree |-> HuffmanCodeNonLeaf(l.tree, r.tree), bits |-> r.bits]

\* HuffmanCodeTree.parse: the tree and the bits left in the shared list, or IndexError
parse(b) ==
    IF b = <<>> THEN IndexError
    ELSE IF Head(b) # 0 THEN parse_leaf(Tail(b))
    ELSE parse_non_leaf(Tail(b))

\* the inner loop of huffman_decompress: one walk from the root to a leaf
RECURSIVE walk(_, _)
walk(node, b) ==
    IF IsNonLeaf(node)
    THEN IF b = <<>> THEN IndexError
         ELSE walk(IF Head(b) = 0 THEN node.left ELSE node.right, Tail(b))
    ELSE [ok |-> TRUE, symbol |-> node.symbol, bits |-> b]

\* ------------------------------------------------------------------ state
Init ==
    /\ pc = "init"
    /\ origin = "none"
    /\ text = <<>>
    /\ lm = <<>>
    /\ rle = <<>>
    /\ lm_rle = <<>>
    /\ symbols = <<>>
    /\ code_tree = NoTree
    /\ symbol_prefix_map = <<>>
    /\ compressed = <<>>
    /\ input = <<>>
    /\ bits = <<>>
    /\ parsed_tree = NoTree
    /\ out = <<>>
    /\ lm_parsed = <<>>
    /\ err = ""

\* LivenessMask.random(total_commitments, live_commitments): any arrangement
\* of live ones and total - live zeros can come out of the shuffle
Random ==
    /\ pc = "init"
    /\ \E total \in 0..MaxTotal : \E live \in 0..total :
         \E mask \in [1..total -> {0, 1}] :
            /\ Cardinality({i \in 1..total : mask[i] = 1}) = live
            /\ lm' = mask
    /\ pc' = "mask"
    /\ origin' = "random"
    /\ UNCHANGED <<text, rle, lm_rle, symbols, code_tree, symbol_prefix_map,
                   compressed, input, bits, parsed_tree, out, lm_parsed, err>>

\* LivenessMask.from_bit_string(bit_string)
FromBitString ==
    /\ pc = "init"
    /\ \E bit_string \in UNION {[1..k -> Chars] : k \in 0..MaxText} :
         LET r == from_bit_string(bit_string)
         IN  /\ text' = bit_string
             /\ IF r.ok
                THEN /\ lm' = r.mask
                     /\ pc' = "mask"
                     /\ err' = err
                ELSE /\ lm' = lm
                     /\ pc' = "error"
                     /\ err' = r.err
    /\ origin' = "text"
    /\ UNCHANGED <<rle, lm_rle, symbols, code_tree, symbol_prefix_map,
                   compressed, input, bits, parsed_tree, out, lm_parsed>>

\* lm.to_rle()
ToRle ==
    /\ pc = "mask"
    /\ rle' = to_rle(lm)
    /\ pc' = "rle"
    /\ UNCHANGED <<origin, text, lm, lm_rle, symbols, code_tree, symbol_prefix_map,
                   compressed, input, bits, parsed_tree, out, lm_parsed, err>>

\* LivenessMask.from_rle(rle)
FromRle ==
    /\ pc = "rle"
    /\ LET r == from_rle(rle)
       IN  IF r.ok
           THEN /\ lm_rle' = r.mask
                /\ pc' = "rle_back"
                /\ err' = err
           ELSE /\ lm_rle' = lm_rle
                /\ pc' = "error"
                /\ err' = r.err
    /\ UNCHANGED <<origin, text, lm, rle, symbols, code_tree, symbol_prefix_map,
                   compressed, input, bits, parsed_tree, out, lm_parsed>>

\* lm.compress(): huffman_compress(self.to_rle())
Compress ==
    /\ pc = "mask"
    /\ symbols' = to_rle(lm)
    /\ code_tree' = for_symbols(symbols')
    /\ symbol_prefix_map' = prefix_map_of(code_tree')
    /\ compressed' = huffman_compress(symbols')
    /\ pc' = "compressed"
    /\ UNCHANGED <<origin, text, lm, rle, lm_rle, input, bits, parsed_tree, out, lm_parsed, err>>

\* huffman_compress(symbols) on a non-empty symbol sequence
HuffmanCompress ==
    /\ pc = "init"
    /\ \E s \in UNION {[1..k -> 0..MaxSymbol] : k \in 1..MaxSymbols} : symbols' = s
    /\ code_tree' = for_symbols(symbols')
    /\ symbol_prefix_map' = prefix_map_of(code_tree')
    /\ compressed' = huffman_compress(symbols')
    /\ pc' = "compressed"
    /\ origin' = "symbols"
    /\ UNCHANGED <<text, lm, rle, lm_rle, input, bits, parsed_tree, out, lm_parsed, err>>

\* the call huffman_decompress(b) up to its loop: parse the tree off the list
huffman_decompress_call(b) ==
    /\ input' = b
    /\ LET r == parse(b)
       IN  /\ bits' = r.bits
           /\ IF r.ok
              THEN /\ parsed_tree' = r.tree
                   /\ pc' = "loop"
                   /\ err' = err
              ELSE /\ parsed_tree' = parsed_tree
                   /\ pc' = "error"
                   /\ err' = r.err
    /\ out' = <<>>

\* huffman_decompress (inside LivenessMask.decompress when the stream is a
\* mask's) on the compressed stream less its last k bits; k = 0 is the
\* driver's call
DecompressTruncated ==
    /\ pc = "compressed"
    /\ \E k \in 0..Len(compressed) :
         huffman_decompress_call(SubSeq(compressed, 1, Len(compressed) - k))
    /\ UNCHANGED <<origin, text, lm, rle, lm_rle, symbols, code_tree, symbol_prefix_map,
                   compressed, lm_parsed>>

\* huffman_decompress on the serialized tree followed by an arbitrary payload
DecompressPayload ==
    /\ pc = "compressed"
    /\ \E p \in BitSeqs(MaxPayload) : huffman_decompress_call(serialize(code_tree) \o p)
    /\ UNCHANGED <<origin, text, lm, rle, lm_rle, symbols, code_tree, symbol_prefix_map,
                   compressed, lm_parsed>>

\* LivenessMask.decompress on an arbitrary bit list
DecompressRaw ==
    /\ pc = "init"
    /\ \E b \in BitSeqs(MaxRaw) : huffman_decompress_call(b)
    /\ origin' = "raw"
    /\ UNCHANGED <<text, lm, rle, lm_rle, symbols, code_tree, symbol_prefix_map,
                   compressed, lm_parsed>>

\* one iteration of the outer loop of huffman_decompress
DecodeSymbol ==
    /\ pc = "loop"
    /\ bits # <<>>
    /\ Len(out) < MaxOut
    /\ LET r == walk(parsed_tree, bits)
       IN  /\ bits' = r.bits
           /\ IF r.ok
              THEN /\ out' = Append(out, r.symbol)
                   /\ pc' = pc
                   /\ err' = err
              ELSE /\ out' = out
                   /\ pc' = "error"
                   /\ err' = r.err
    /\ UNCHANGED <<origin, text, lm, rle, lm_rle, symbols, code_tree, symbol_prefix_map,
                   compressed, input, parsed_tree, lm_parsed>>

\* the loop ends and huffman_decompress returns; unless the caller handed it
\* a plain symbol stream, LivenessMask.decompress builds the mask from the
\* decoded run lengths
Return ==
    /\ pc = "loop"
    /\ bits = <<>>
    /\ LET r == IF origin = "symbols" THEN [ok |-> TRUE, mask |-> lm_parsed] ELSE from_rle(out)
       IN  IF r.ok
           THEN /\ lm_parsed' = r.mask
                /\ pc' = "done"
                /\ err' = err
           ELSE /\ lm_parsed' = lm_parsed
                /\ pc' = "error"
                /\ err' = r.err
    /\ UNCHANGED <<origin, text, lm, rle, lm_rle, symbols, code_tree, symbol_prefix_map,
                   compressed, input, bits, parsed_tree, out>>

Next ==
    \/ Random
    \/ FromBitString
    \/ ToRle
    \/ FromRle
    \/ Compress
    \/ HuffmanCompress
    \/ DecompressTruncated
    \/ DecompressPayload
    \/ DecompressRaw
    \/ DecodeSymbol
    \/ Return

Spec == Init /\ [][Next]_vars

\* ---------------------------------------------------------------- helpers
IsPrefix(a, b) == Len(a) <= Len(b) /\ SubSeq(b, 1, Len(a)) = a

count_true(mask) == Cardinality({i \in 1..Len(mask) : mask[i] = 1})

\* the number of zeros of mask that have exactly n ones before them
zero_run(mask, n) ==
    Cardinality({j \in 1..Len(mask) :
        mask[j] = 0 /\ Cardinality({i \in 1..j : mask[i] = 1}) = n})

\* the shape and the leaf symbols of a tree, without the counts
RECURSIVE topology(_)
topology(t) ==
    IF IsNonLeaf(t) THEN [left |-> topology(t.left), right |-> topology(t.right)]
    ELSE [symbol |-> t.symbol]

\* every count of a tree is None
RECURSIVE counts_unknown(_)
counts_unknown(t) ==
    /\ t.count = NoneCount
    /\ IsNonLeaf(t) => counts_unknown(t.left) /\ counts_unknown(t.right)

Returned == pc = "done"
Ended == pc \in {"done", "error"}
\* huffman_decompress was called on the whole compressed stream
WholeStream == compressed # <<>> /\ input = compressed
\* huffman_decompress was called on the compressed stream less some trailing bits
TruncatedStream == input # compressed /\ IsPrefix(input, compressed)
\* huffman_decompress was called on the serialized tree followed by some payload
TreeThenPayload ==
    /\ code_tree # NoTree
    /\ pc \in {"loop", "done", "error"}
    /\ IsPrefix(serialize(code_tree), input)

ExampleText == <<"0", "1", "0", "0", "1", "0", "1", "0">>

\* ----------------------------------------------------------------- claims
\* C1: Huffman round trip. For every non-empty symbol sequence, also one of
\* length 1 or of identical symbols, huffman_decompress(huffman_compress(symbols))
\* returns exactly symbols.
HuffmanRoundTrip ==
    (Ended /\ WholeStream) => (Returned /\ out = symbols)

\* C2: mask round trip. For every mask m, LivenessMask.decompress(m.compress())
\* is a mask equal to m, of the same length.
MaskRoundTrip ==
    (Ended /\ WholeStream /\ origin \in {"random", "text"}) => (Returned /\ lm_parsed = lm)

\* C3: malformed stream rejection. huffman_decompress on a compressed stream
\* with its last k >= 1 bits removed fails with an error and never returns a
\* symbol sequence.
TruncatedStreamRejected ==
    TruncatedStream => ~Returned

\* C4: RLE bijection. For every mask m, from_rle(to_rle(m)) is a mask equal to m.
RleBijection ==
    /\ pc = "rle_back" => lm_rle = lm
    /\ rle # <<>> => pc # "error"

RleBijectionWitness ==
    /\ pc = "rle_back"
    /\ lm = <<0, 1, 1, 0, 0>>
    /\ rle = <<1, 0, 2>>
    /\ lm_rle = lm

\* C5: RLE symbol count. to_rle(m) has (number of true elements of m) + 1
\* elements, the i-th being the length of the i-th maximal run of false values.
RleSymbolCount ==
    pc \in {"rle", "rle_back"} =>
        /\ Len(rle) = count_true(lm) + 1
        /\ \A i \in 1..Len(rle) : rle[i] = zero_run(lm, i - 1)

RleSymbolCountWitness ==
    /\ pc = "rle"
    /\ lm = <<1, 0, 0, 1, 1>>
    /\ rle = <<0, 2, 0, 0>>

\* C6: prefix freedom. The codeword map of a tree built by for_symbols has
\* exactly one entry per distinct input symbol, and no symbol's codeword is a
\* prefix of (or equal to) another symbol's codeword.
PrefixFreedom ==
    code_tree # NoTree =>
        /\ DOMAIN symbol_prefix_map = {symbols[i] : i \in 1..Len(symbols)}
        /\ \A a \in DOMAIN symbol_prefix_map : \A b \in DOMAIN symbol_prefix_map :
              a # b => ~IsPrefix(symbol_prefix_map[a], symbol_prefix_map[b])

PrefixFreedomWitness ==
    /\ pc = "compressed"
    /\ Cardinality(DOMAIN symbol_prefix_map) = 3
    /\ \E a \in DOMAIN symbol_prefix_map : \E b \in DOMAIN symbol_prefix_map :
          Len(symbol_prefix_map[a]) = 1 /\ Len(symbol_prefix_map[b]) = 2

\* C7: tree serialization is self-delimiting. Parsing serialize(t) followed by
\* any payload p gives a tree of the same topology and leaf symbols as t, with
\* unknown counts, and leaves exactly p in the shared bit list.
TreeSelfDelimiting ==
    TreeThenPayload =>
        /\ parsed_tree # NoTree
        /\ topology(parsed_tree) = topology(code_tree)
        /\ counts_unknown(parsed_tree)
        /\ (pc = "loop" /\ out = <<>>) =>
              bits = SubSeq(input, Len(serialize(code_tree)) + 1, Len(input))

TreeSelfDelimitingWitness ==
    /\ pc = "loop"
    /\ out = <<>>
    /\ IsNonLeaf(code_tree)
    /\ \E i \in 1..Len(symbols) : symbols[i] = 0
    /\ input = serialize(code_tree) \o <<1, 1, 0>>
    /\ input # compressed
    /\ bits = <<1, 1, 0>>
    /\ topology(parsed_tree) = topology(code_tree)

\* C8: from_bit_string fails with an error, and returns no mask, whenever the
\* string holds a character other than '0' or '1'; on strings of '0' and '1'
\* it is the inverse of repr.
FromTextRejectsNonBits ==
    origin = "text" =>
        IF \E i \in 1..Len(text) : text[i] \notin {"0", "1"}
        THEN pc = "error" /\ err = "ValueError" /\ lm = <<>>
        ELSE err # "ValueError" /\ repr(lm) = text

\* C9 as stated: for the mask with text "01001010", to_rle returns [1,2,1,1,0].
ExampleRleAsStated ==
    (pc = "rle" /\ repr(lm) = ExampleText) => rle = <<1, 2, 1, 1, 0>>

\* C9 amended: for the mask with text "01001010", to_rle returns [1,2,1,1].
ExampleRle ==
    (pc = "rle" /\ repr(lm) = ExampleText) => rle = <<1, 2, 1, 1>>

ExampleRleWitness ==
    /\ pc = "rle"
    /\ repr(lm) = ExampleText
    /\ count_true(lm) = 3
    /\ Len(rle) = 4

\* C10: decompression always terminates: every iteration of the outer decode
\* loop consumes at least one bit, also when the parsed tree is a single leaf
\* and bits are left after the tree.
DecodeLoopConsumesBits ==
    [][(pc = "loop" /\ pc' = "loop") => Len(bits') < Len(bits)]_vars
====
